---- MODULE Spec2Model ----
(***************************************************************************)
(* Model of src/utils/calculators/rules.js: the earning rules              *)
(* (DistanceRule, IntraCountryRule, FareClassRule, GeographicalRule) and   *)
(* parseEarningRates.                                                      *)
(*                                                                         *)
(* A rule is built once (Init) and never changes; every action is one call *)
(* of one method of that rule, with its arguments drawn from small sets.   *)
(* The call, its arguments and what it returned (or that it threw) are the *)
(* state.  JavaScript strings whose letters matter (city, country, iata,   *)
(* the strings parseEarningRates reads) are sequences of one-character     *)
(* strings, so that toLowerCase, trim, replace, split and parseInt are     *)
(* computed and not assumed.                                               *)
(***************************************************************************)
EXTENDS Integers, Sequences, FiniteSets, TLC

VARIABLES rule, op, args, ret, threw

vars == <<rule, op, args, ret, threw>>

(***************************************************************************)
(* Bounds of the model.                                                    *)
(***************************************************************************)
\* longest list of distance bands a rule is built with
MaxBands == 2
\* largest minDistance / maxDistance / distance
MaxDistance == 2
\* most entries configured on one side (origin or destination) of a
\* GeographicalRule
MaxEntries == 2
\* most characters of the points string and the credits string given to
\* parseEarningRates, together
MaxInputLen == 4
\* longest list of fare classes given to parseEarningRates
MaxFareClasses == 2

(***************************************************************************)
(* Strings.                                                                *)
(***************************************************************************)
\* String.prototype.toLowerCase on one character
LowerChar(c) ==
  CASE c = "A" -> "a"
    [] c = "D" -> "d"
    [] c = "L" -> "l"
    [] c = "S" -> "s"
    [] c = "U" -> "u"
    [] c = "X" -> "x"
    [] c = "Y" -> "y"
    [] OTHER -> c

UpperChar(c) ==
  CASE c = "a" -> "A"
    [] c = "d" -> "D"
    [] c = "l" -> "L"
    [] c = "s" -> "S"
    [] c = "u" -> "U"
    [] c = "x" -> "X"
    [] c = "y" -> "Y"
    [] OTHER -> c

toLowerCase(s) == [i \in 1..Len(s) |-> LowerChar(s[i])]

toUpperCase(s) == [i \in 1..Len(s) |-> UpperChar(s[i])]

Capitalized(s) == [i \in 1..Len(s) |-> IF i = 1 THEN UpperChar(s[i]) ELSE s[i]]

\* the spellings of s that differ from it in letter case only
CaseVariants(s) ==
  {toLowerCase(s), toUpperCase(s), Capitalized(toLowerCase(s))}

(***************************************************************************)
(* Airports, segments, fare-earn categories, earnings.                     *)
(***************************************************************************)
\* an airport whose city is not spelled in lower case
Sydney == [iata |-> <<"S", "Y", "D">>, city |-> <<"S", "y", "d">>,
           country |-> <<"a", "u">>]

\* an airport whose country is not spelled in lower case
LosAngeles == [iata |-> <<"L", "A", "X">>, city |-> <<"l", "a">>,
               country |-> <<"U", "S">>]

Airports == {Sydney, LosAngeles}

Segments == [fromAirport : Airports, toAirport : Airports]

Categories == {"economy", "business"}

CategoryNo(c) == IF c = "economy" THEN 1 ELSE 2

\* new QantasEarnings(qantasPoints, statusCredits)
QantasEarnings(qantasPoints, statusCredits) ==
  [qantasPoints |-> qantasPoints, statusCredits |-> statusCredits]

\* the earnings table numbered k with the categories dom: every entry of
\* every table has its own points and credits
EarningsTable(k, dom) ==
  [c \in dom |-> QantasEarnings(100 * k + 10 * CategoryNo(c), 2 * k + CategoryNo(c))]

EarningsDomains == {{"economy"}, {"economy", "business"}}

(***************************************************************************)
(* Rule                                                                    *)
(***************************************************************************)
\* what a call that throws leaves behind
Thrown == [threw |-> TRUE, value |-> "error"]

Returned(v) == [threw |-> FALSE, value |-> v]

\* buildCalculationReturn with the points and the credits exchanged
buildCalculationReturnSwapped(r, fareEarnCategory, notes, qantasPoints, statusCredits) ==
  [rule |-> r.name, ruleUrl |-> r.ruleUrl, fareEarnCategory |-> fareEarnCategory,
   notes |-> notes, qantasPoints |-> statusCredits, statusCredits |-> qantasPoints]

buildCalculationReturn(r, fareEarnCategory, notes, qantasPoints, statusCredits) ==
  [rule |-> r.name, ruleUrl |-> r.ruleUrl, fareEarnCategory |-> fareEarnCategory,
   notes |-> notes, qantasPoints |-> qantasPoints, statusCredits |-> statusCredits]

(***************************************************************************)
(* DistanceRule                                                            *)
(***************************************************************************)
\* the bands a list may hold at position k; hasMax is 'maxDistance' in band
DistanceBands(k) ==
  { [minDistance |-> lo, hasMax |-> FALSE, maxDistance |-> 0,
     earnings |-> EarningsTable(k, dom)] :
      lo \in 0..(MaxDistance - 1), dom \in EarningsDomains }
  \cup
  { [minDistance |-> b[1], hasMax |-> TRUE, maxDistance |-> b[2],
     earnings |-> EarningsTable(k, dom)] :
      b \in {p \in (0..(MaxDistance - 1)) \X (1..MaxDistance) : p[1] < p[2]},
      dom \in EarningsDomains }

RECURSIVE BandLists(_)
BandLists(n) ==
  IF n = 0 THEN {<<>>}
  ELSE LET shorter == BandLists(n - 1)
       IN shorter \cup
          {Append(l, b) : l \in {s \in shorter : Len(s) = n - 1}, b \in DistanceBands(n)}

\* the callback of find in _getDistanceBand
\* the callback with minDistance <= distance
BandMatchesInclusiveLower(distanceBand, distance) ==
  /\ distanceBand.minDistance <= distance
  /\ (~distanceBand.hasMax \/ distance <= distanceBand.maxDistance)

BandMatches(distanceBand, distance) ==
  /\ distanceBand.minDistance < distance
  /\ (~distanceBand.hasMax \/ distance <= distanceBand.maxDistance)

\* Array.prototype.find from position i on; 0 is undefined
RECURSIVE FindBand(_, _, _)
FindBand(distanceBands, i, distance) ==
  IF i > Len(distanceBands) THEN 0
  ELSE IF BandMatches(distanceBands[i], distance) THEN i
  ELSE FindBand(distanceBands, i + 1, distance)

\* DistanceRule._getDistanceBand: the position of the band found, 0 for none
GetDistanceBand(r, distance) == FindBand(r.distanceBands, 1, distance)

\* DistanceRule.applies; miles is what calcDistance returns for the segment
DistanceRuleApplies(r, miles, fareEarnCategory) ==
  LET distanceBand == GetDistanceBand(r, miles)
  IN IF distanceBand = 0 THEN FALSE
     ELSE fareEarnCategory \in DOMAIN r.distanceBands[distanceBand].earnings

\* the notes of DistanceRule.calculate: the distance and the band's wording
DistanceNotes(distance, distanceBand) ==
  IF distanceBand.hasMax
    THEN <<"Distance calculated to", distance, "miles, using band",
           distanceBand.minDistance, "-", distanceBand.maxDistance>>
    ELSE <<"Distance calculated to", distance, "miles, using band",
           distanceBand.minDistance, "and over">>

\* DistanceRule.calculate: throws the Error when no band is found, and the
\* TypeError of reading qantasPoints of undefined when the band has no
\* earnings for the category
DistanceRuleCalculate(r, miles, fareEarnCategory) ==
  LET distanceBand == GetDistanceBand(r, miles)
  IN IF distanceBand = 0 THEN Thrown
     ELSE LET band == r.distanceBands[distanceBand]
          IN IF fareEarnCategory \notin DOMAIN band.earnings THEN Thrown
             ELSE Returned(buildCalculationReturn(r, fareEarnCategory,
                    DistanceNotes(miles, band),
                    band.earnings[fareEarnCategory].qantasPoints,
                    band.earnings[fareEarnCategory].statusCredits))

DistanceRules ==
  { [kind |-> "DistanceRule", name |-> "Distance", ruleUrl |-> "url/distance",
     distanceBands |-> l] : l \in BandLists(MaxBands) }

(***************************************************************************)
(* IntraCountryRule                                                        *)
(***************************************************************************)
\* applies with && between the two country tests
IntraCountryRuleAppliesEitherCountry(r, segment, miles, fareEarnCategory) ==
  IF /\ segment.fromAirport.country # r.country
     /\ segment.toAirport.country # r.country
    THEN FALSE
    ELSE DistanceRuleApplies(r.distanceRule, miles, fareEarnCategory)

\* IntraCountryRule.applies
IntraCountryRuleApplies(r, segment, miles, fareEarnCategory) ==
  IF \/ segment.fromAirport.country # r.country
     \/ segment.toAirport.country # r.country
    THEN FALSE
    ELSE DistanceRuleApplies(r.distanceRule, miles, fareEarnCategory)

\* IntraCountryRule.calculate
IntraCountryRuleCalculate(r, segment, miles, fareEarnCategory) ==
  DistanceRuleCalculate(r.distanceRule, miles, fareEarnCategory)

IntraCountryRules ==
  { [kind |-> "IntraCountryRule", name |-> "Domestic", ruleUrl |-> "url/domestic",
     country |-> <<"a", "u">>,
     distanceRule |-> [kind |-> "DistanceRule", name |-> "Domestic",
                       ruleUrl |-> "url/domestic", distanceBands |-> l]] :
      l \in BandLists(MaxBands) }

(***************************************************************************)
(* FareClassRule                                                           *)
(***************************************************************************)
\* applies without the membership test
FareClassRuleAppliesAlways(r, segment, fareEarnCategory) == TRUE

\* FareClassRule.applies
FareClassRuleApplies(r, segment, fareEarnCategory) ==
  fareEarnCategory \in DOMAIN r.fareClassEarnings

\* FareClassRule.calculate: reading calculationNotes of undefined throws
FareClassRuleCalculate(r, segment, fareEarnCategory) ==
  IF fareEarnCategory \notin DOMAIN r.fareClassEarnings THEN Thrown
  ELSE Returned(buildCalculationReturn(r, fareEarnCategory,
         r.fareClassEarnings[fareEarnCategory].calculationNotes,
         r.fareClassEarnings[fareEarnCategory].qantasPoints,
         r.fareClassEarnings[fareEarnCategory].statusCredits))

FareClassRules ==
  { [kind |-> "FareClassRule", name |-> "FareClass", ruleUrl |-> "url/fareclass",
     fareClassEarnings |->
       [c \in dom |-> [qantasPoints |-> 1000 * CategoryNo(c),
                       statusCredits |-> 5 * CategoryNo(c),
                       calculationNotes |-> <<"flat rate", c>>]]] :
      dom \in SUBSET Categories }

(***************************************************************************)
(* GeographicalRule                                                        *)
(*                                                                         *)
(* ruleConfig.origin holds a Set per location type and                     *)
(* ruleConfig.destination an object per location type.  A type that is not *)
(* configured behaves as an empty one (its test is skipped), so it is the  *)
(* empty set here.  The regions are sequences: the code walks them in      *)
(* insertion order and stops at the first that holds the airport.          *)
(***************************************************************************)
CityNames == {<<"s", "y", "d">>, <<"l", "a">>}

CountryNames == {<<"a", "u">>, <<"u", "s">>}

Oceania == <<"o", "c">>

Pacific == <<"p", "a">>

RegionNames == {Oceania, Pacific}

\* isInRegion of ./regions, on the lower-cased iata code
isInRegion(iata, region) ==
  \/ region = Oceania /\ iata = <<"s", "y", "d">>
  \/ region = Pacific /\ iata \in {<<"s", "y", "d">>, <<"l", "a", "x">>}

\* REGION_DISPLAY[region] || region, of @/models/constants
RegionDisplay(region) ==
  IF region = Oceania THEN <<"O", "c", "e", "a", "n", "i", "a">> ELSE region

Null == [type |-> "null", value |-> <<>>]

RECURSIVE FirstRegion(_, _, _)
FirstRegion(regions, i, iata) ==
  IF i > Len(regions) THEN Null
  ELSE IF isInRegion(iata, regions[i]) THEN [type |-> "region", value |-> regions[i]]
  ELSE FirstRegion(regions, i + 1, iata)

\* _getOrigin with the country tested before the city
GetOriginCountryFirst(ruleConfig, airport) ==
  IF toLowerCase(airport.country) \in ruleConfig.origin.country
    THEN [type |-> "country", value |-> toLowerCase(airport.country)]
  ELSE IF toLowerCase(airport.city) \in ruleConfig.origin.city
    THEN [type |-> "city", value |-> toLowerCase(airport.city)]
  ELSE FirstRegion(ruleConfig.origin.region, 1, toLowerCase(airport.iata))

\* GeographicalRule._getOrigin
GetOrigin(ruleConfig, airport) ==
  IF toLowerCase(airport.city) \in ruleConfig.origin.city
    THEN [type |-> "city", value |-> toLowerCase(airport.city)]
  ELSE IF toLowerCase(airport.country) \in ruleConfig.origin.country
    THEN [type |-> "country", value |-> toLowerCase(airport.country)]
  ELSE FirstRegion(ruleConfig.origin.region, 1, toLowerCase(airport.iata))

\* Object.keys(ruleConfig.destination.region)
RegionKeys(ruleConfig) ==
  [i \in 1..Len(ruleConfig.destination.region) |-> ruleConfig.destination.region[i].key]

\* GeographicalRule._getDestination
GetDestination(ruleConfig, airport) ==
  IF toLowerCase(airport.city) \in DOMAIN ruleConfig.destination.city
    THEN [type |-> "city", value |-> toLowerCase(airport.city)]
  ELSE IF toLowerCase(airport.country) \in DOMAIN ruleConfig.destination.country
    THEN [type |-> "country", value |-> toLowerCase(airport.country)]
  ELSE FirstRegion(RegionKeys(ruleConfig), 1, toLowerCase(airport.iata))

\* _getOriginAndDestination without the swapped attempt
GetOriginAndDestinationNoRetry(ruleConfig, segment) ==
  [origin |-> GetOrigin(ruleConfig, segment.fromAirport),
   destination |-> GetDestination(ruleConfig, segment.toAirport)]

\* GeographicalRule._getOriginAndDestination
GetOriginAndDestination(ruleConfig, segment) ==
  LET origin == GetOrigin(ruleConfig, segment.fromAirport)
      destination == GetDestination(ruleConfig, segment.toAirport)
  IN IF origin = Null \/ destination = Null
       THEN [origin |-> GetOrigin(ruleConfig, segment.toAirport),
             destination |-> GetDestination(ruleConfig, segment.fromAirport)]
       ELSE [origin |-> origin, destination |-> destination]

\* ruleConfig.destination[destination.type][destination.value]
DestinationEarnings(ruleConfig, destination) ==
  CASE destination.type = "city" -> ruleConfig.destination.city[destination.value]
    [] destination.type = "country" -> ruleConfig.destination.country[destination.value]
    [] destination.type = "region" ->
         LET i == CHOOSE j \in 1..Len(ruleConfig.destination.region) :
                    ruleConfig.destination.region[j].key = destination.value
         IN ruleConfig.destination.region[i].earnings

\* _buildCalculationNotesInner; a location of another type makes it throw
BuildCalculationNotesInner(location) ==
  CASE location.type = "airport" -> location.value \o <<" ", "a", "i", "r", "p", "o", "r", "t">>
    [] location.type = "city" -> location.value
    [] location.type = "country" -> location.value
    [] location.type = "region" -> RegionDisplay(location.value)

KnownLocationTypes == {"airport", "city", "country", "region"}

\* GeographicalRule._buildCalculationNotes
BuildCalculationNotes(origin, destination) ==
  BuildCalculationNotesInner(origin) \o <<" ", "t", "o", " ">>
    \o BuildCalculationNotesInner(destination)

\* GeographicalRule.applies
GeographicalRuleApplies(r, segment, fareEarnCategory) ==
  LET od == GetOriginAndDestination(r.ruleConfig, segment)
  IN IF od.origin = Null \/ od.destination = Null THEN FALSE
     ELSE fareEarnCategory \in DOMAIN DestinationEarnings(r.ruleConfig, od.destination)

\* GeographicalRule.calculate: reading type of a null destination throws,
\* rendering a null origin throws, reading qantasPoints of undefined throws
GeographicalRuleCalculate(r, segment, fareEarnCategory) ==
  LET od == GetOriginAndDestination(r.ruleConfig, segment)
  IN IF od.destination = Null THEN Thrown
     ELSE LET earnings == DestinationEarnings(r.ruleConfig, od.destination)
          IN IF od.origin = Null THEN Thrown
             ELSE IF \/ od.origin.type \notin KnownLocationTypes
                     \/ od.destination.type \notin KnownLocationTypes THEN Thrown
             ELSE IF fareEarnCategory \notin DOMAIN earnings THEN Thrown
             ELSE Returned(buildCalculationReturn(r, fareEarnCategory,
                    BuildCalculationNotes(od.origin, od.destination),
                    earnings[fareEarnCategory].qantasPoints,
                    earnings[fareEarnCategory].statusCredits))

\* the sequences of distinct elements of S, no longer than n
RECURSIVE DistinctSeqs(_, _)
DistinctSeqs(S, n) ==
  IF n = 0 THEN {<<>>}
  ELSE LET shorter == DistinctSeqs(S, n - 1)
       IN shorter \cup
          UNION { {Append(l, x) : x \in S \ {l[i] : i \in DOMAIN l}} :
                  l \in {s \in shorter : Len(s) = n - 1} }

Origins ==
  { o \in [city : SUBSET CityNames, country : SUBSET CountryNames,
           region : DistinctSeqs(RegionNames, Cardinality(RegionNames))] :
      Cardinality(o.city) + Cardinality(o.country) + Len(o.region) <= MaxEntries }

\* the number of the earnings table of a destination entry
EntryNo(name) ==
  CASE name = <<"s", "y", "d">> -> 1
    [] name = <<"l", "a">> -> 2
    [] name = <<"a", "u">> -> 3
    [] name = <<"u", "s">> -> 4
    [] name = Oceania -> 5
    [] name = Pacific -> 6

\* the objects with keys among names, each key with an earnings table
EarningsObjects(names) ==
  UNION { { [n \in keys |-> EarningsTable(EntryNo(n), doms[n])] :
              doms \in [keys -> EarningsDomains] } : keys \in SUBSET names }

RegionObjects ==
  UNION { { [i \in 1..Len(keys) |->
               [key |-> keys[i], earnings |-> EarningsTable(EntryNo(keys[i]), doms[i])]] :
              doms \in [1..Len(keys) -> EarningsDomains] } :
          keys \in DistinctSeqs(RegionNames, Cardinality(RegionNames)) }

Destinations ==
  { d \in [city : EarningsObjects(CityNames), country : EarningsObjects(CountryNames),
           region : RegionObjects] :
      Cardinality(DOMAIN d.city) + Cardinality(DOMAIN d.country) + Len(d.region)
        <= MaxEntries }

GeographicalRules ==
  { [kind |-> "GeographicalRule", name |-> "Geographical", ruleUrl |-> "url/geo",
     ruleConfig |-> [origin |-> o, destination |-> d]] :
      o \in Origins, d \in Destinations }

(***************************************************************************)
(* The calls.                                                              *)
(***************************************************************************)
Distances == 0..MaxDistance

Init ==
  /\ \/ rule \in DistanceRules
     \/ rule \in IntraCountryRules
     \/ rule \in FareClassRules
     \/ rule \in GeographicalRules
  /\ op = "new"
  /\ args = <<>>
  /\ ret = <<>>
  /\ threw = FALSE

\* One call of a method of the rule.  No method writes to the rule, so a
\* call made after other calls returns what it returns on the new rule:
\* the behaviours make one call each.
Call(name, a, result) ==
  /\ op = "new"
  /\ op' = name
  /\ args' = a
  /\ ret' = result.value
  /\ threw' = result.threw
  /\ UNCHANGED rule

DistanceRule_getDistanceBand ==
  /\ rule.kind = "DistanceRule"
  /\ \E distance \in Distances :
       Call("DistanceRule._getDistanceBand", [distance |-> distance],
            Returned(GetDistanceBand(rule, distance)))

DistanceRule_applies ==
  /\ rule.kind = "DistanceRule"
  /\ \E miles \in Distances, c \in Categories :
       Call("DistanceRule.applies",
            [segment |-> [fromAirport |-> Sydney, toAirport |-> LosAngeles],
             miles |-> miles, fareEarnCategory |-> c],
            Returned(DistanceRuleApplies(rule, miles, c)))

DistanceRule_calculate ==
  /\ rule.kind = "DistanceRule"
  /\ \E miles \in Distances, c \in Categories :
       Call("DistanceRule.calculate",
            [segment |-> [fromAirport |-> Sydney, toAirport |-> LosAngeles],
             miles |-> miles, fareEarnCategory |-> c],
            DistanceRuleCalculate(rule, miles, c))

IntraCountryRule_applies ==
  /\ rule.kind = "IntraCountryRule"
  /\ \E s \in Segments, miles \in Distances, c \in Categories :
       Call("IntraCountryRule.applies",
            [segment |-> s, miles |-> miles, fareEarnCategory |-> c],
            Returned(IntraCountryRuleApplies(rule, s, miles, c)))

IntraCountryRule_calculate ==
  /\ rule.kind = "IntraCountryRule"
  /\ \E s \in Segments, miles \in Distances, c \in Categories :
       Call("IntraCountryRule.calculate",
            [segment |-> s, miles |-> miles, fareEarnCategory |-> c],
            IntraCountryRuleCalculate(rule, s, miles, c))

FareClassRule_applies ==
  /\ rule.kind = "FareClassRule"
  /\ \E s \in Segments, c \in Categories :
       Call("FareClassRule.applies", [segment |-> s, fareEarnCategory |-> c],
            Returned(FareClassRuleApplies(rule, s, c)))

FareClassRule_calculate ==
  /\ rule.kind = "FareClassRule"
  /\ \E s \in Segments, c \in Categories :
       Call("FareClassRule.calculate", [segment |-> s, fareEarnCategory |-> c],
            FareClassRuleCalculate(rule, s, c))

GeographicalRule_getOrigin ==
  /\ rule.kind = "GeographicalRule"
  /\ \E a \in Airports :
       Call("GeographicalRule._getOrigin", [airport |-> a],
            Returned(GetOrigin(rule.ruleConfig, a)))

GeographicalRule_getDestination ==
  /\ rule.kind = "GeographicalRule"
  /\ \E a \in Airports :
       Call("GeographicalRule._getDestination", [airport |-> a],
            Returned(GetDestination(rule.ruleConfig, a)))

GeographicalRule_getOriginAndDestination ==
  /\ rule.kind = "GeographicalRule"
  /\ \E s \in Segments :
       Call("GeographicalRule._getOriginAndDestination", [segment |-> s],
            Returned(GetOriginAndDestination(rule.ruleConfig, s)))

GeographicalRule_applies ==
  /\ rule.kind = "GeographicalRule"
  /\ \E s \in Segments, c \in Categories :
       Call("GeographicalRule.applies", [segment |-> s, fareEarnCategory |-> c],
            Returned(GeographicalRuleApplies(rule, s, c)))

GeographicalRule_calculate ==
  /\ rule.kind = "GeographicalRule"
  /\ \E s \in Segments, c \in Categories :
       Call("GeographicalRule.calculate", [segment |-> s, fareEarnCategory |-> c],
            GeographicalRuleCalculate(rule, s, c))

Next ==
  \/ DistanceRule_getDistanceBand
  \/ DistanceRule_applies
  \/ DistanceRule_calculate
  \/ IntraCountryRule_applies
  \/ IntraCountryRule_calculate
  \/ FareClassRule_applies
  \/ FareClassRule_calculate
  \/ GeographicalRule_getOrigin
  \/ GeographicalRule_getDestination
  \/ GeographicalRule_getOriginAndDestination
  \/ GeographicalRule_applies
  \/ GeographicalRule_calculate

Spec == Init /\ [][Next]_vars

(***************************************************************************)
(* parseEarningRates                                                       *)
(***************************************************************************)
\* the characters of the strings parseEarningRates is given here
Alphabet == {"1", "2", "a", ",", " "}

\* what \s matches
IsWhitespace(c) == c \in {" ", "\t", "\n"}

IsDigit(c) == c \in {"0", "1", "2", "3", "4", "5", "6", "7", "8", "9"}

DigitValue(c) ==
  CASE c = "0" -> 0 [] c = "1" -> 1 [] c = "2" -> 2 [] c = "3" -> 3 [] c = "4" -> 4
    [] c = "5" -> 5 [] c = "6" -> 6 [] c = "7" -> 7 [] c = "8" -> 8 [] c = "9" -> 9

\* String.prototype.trim
RECURSIVE trim(_)
trim(s) ==
  IF s = <<>> THEN s
  ELSE IF IsWhitespace(s[1]) THEN trim(Tail(s))
  ELSE IF IsWhitespace(s[Len(s)]) THEN trim(SubSeq(s, 1, Len(s) - 1))
  ELSE s

\* .replace(/\,/gm, '')
RemoveCommas(s) == SelectSeq(s, LAMBDA c : c # ",")

\* .replace(/\s+/gm, ' '): every maximal run of whitespace becomes one space
RECURSIVE CollapseWhitespace(_)
CollapseWhitespace(s) ==
  IF s = <<>> THEN s
  ELSE IF IsWhitespace(s[1])
    THEN IF Len(s) > 1 /\ IsWhitespace(s[2])
           THEN CollapseWhitespace(Tail(s))
           ELSE <<" ">> \o CollapseWhitespace(Tail(s))
  ELSE <<s[1]>> \o CollapseWhitespace(Tail(s))

\* .split(' '): the pieces between the spaces; the empty string gives one
\* empty piece
RECURSIVE split(_)
split(s) ==
  IF \A i \in 1..Len(s) : s[i] # " " THEN <<s>>
  ELSE LET i == CHOOSE j \in 1..Len(s) :
                  s[j] = " " /\ \A k \in 1..(j - 1) : s[k] # " "
       IN <<SubSeq(s, 1, i - 1)>> \o split(SubSeq(s, i + 1, Len(s)))

\* pointsPerFareclass
PointsTokens(qantasPointsString) ==
  split(CollapseWhitespace(RemoveCommas(trim(qantasPointsString))))

\* creditsPerFareclass
CreditsTokens(qantasCreditsString) ==
  split(CollapseWhitespace(trim(qantasCreditsString)))

NaN == [isNaN |-> TRUE, value |-> 0]

\* the value of the digits of s read from the left, after the value acc
RECURSIVE ReadDigits(_, _)
ReadDigits(s, acc) ==
  IF s = <<>> \/ ~IsDigit(s[1]) THEN acc
  ELSE ReadDigits(Tail(s), 10 * acc + DigitValue(s[1]))

\* a parse that takes the whole string or nothing
ParseIntWholeString(s) ==
  IF s # <<>> /\ \A i \in 1..Len(s) : IsDigit(s[i])
    THEN [isNaN |-> FALSE, value |-> ReadDigits(s, 0)]
    ELSE NaN

\* parseInt of a string without radix prefix: leading whitespace is skipped,
\* a sign is read, then the longest run of digits; what follows is ignored,
\* and there is no number (NaN) when no digit is read
RECURSIVE ParseInt(_)
ParseInt(s) ==
  IF s = <<>> THEN NaN
  ELSE IF IsWhitespace(s[1]) THEN ParseInt(Tail(s))
  ELSE LET signed == s[1] \in {"-", "+"}
           digits == IF signed THEN Tail(s) ELSE s
       IN IF digits = <<>> \/ ~IsDigit(digits[1]) THEN NaN
          ELSE [isNaN |-> FALSE,
                value |-> IF s[1] = "-" THEN 0 - ReadDigits(digits, 0)
                          ELSE ReadDigits(digits, 0)]

\* parseInt(tokens[index]) || 0, index counted from 1; parseInt(undefined)
\* is NaN, and NaN and 0 are both falsy
ParseIntOrZero(tokens, index) ==
  LET n == IF index <= Len(tokens) THEN ParseInt(tokens[index]) ELSE NaN
  IN IF n.isNaN THEN 0 ELSE n.value

\* fareClasses.forEach((fareClass, index) => retval[fareClass] = ...), from
\* position index on
RECURSIVE ForEachFareClass(_, _, _, _, _)
ForEachFareClass(retval, fareClasses, index, pointsPerFareclass, creditsPerFareclass) ==
  IF index > Len(fareClasses) THEN retval
  ELSE ForEachFareClass(
         [k \in DOMAIN retval \cup {fareClasses[index]} |->
            IF k = fareClasses[index]
              THEN QantasEarnings(ParseIntOrZero(pointsPerFareclass, index),
                                  ParseIntOrZero(creditsPerFareclass, index))
              ELSE retval[k]],
         fareClasses, index + 1, pointsPerFareclass, creditsPerFareclass)

\* parseEarningRates
parseEarningRates(qantasPointsString, qantasCreditsString, fareClasses) ==
  ForEachFareClass([k \in {} |-> 0], fareClasses, 1,
                   PointsTokens(qantasPointsString),
                   CreditsTokens(qantasCreditsString))

Strings(n) == UNION {[1..k -> Alphabet] : k \in 0..n}

FareClassLabels == {"Y", "J"}

FareClassLists == UNION {[1..k -> FareClassLabels] : k \in 0..MaxFareClasses}

\* the caller holds a points string
InitParse ==
  /\ rule = "none"
  /\ op = "new"
  /\ args \in [qantasPointsString : Strings(MaxInputLen)]
  /\ ret = <<>>
  /\ threw = FALSE

\* the call, with a credits string and a list of fare classes
ParseEarningRates_call ==
  /\ op = "new"
  /\ \E qantasCreditsString \in Strings(MaxInputLen - Len(args.qantasPointsString)),
        fareClasses \in FareClassLists :
       /\ op' = "parseEarningRates"
       /\ args' = [qantasPointsString |-> args.qantasPointsString,
                   qantasCreditsString |-> qantasCreditsString,
                   fareClasses |-> fareClasses]
       /\ ret' = parseEarningRates(args.qantasPointsString, qantasCreditsString,
                                   fareClasses)
  /\ threw' = FALSE
  /\ UNCHANGED rule

NextParse == ParseEarningRates_call

SpecParse == InitParse /\ [][NextParse]_vars

(***************************************************************************)
(* The properties.                                                         *)
(***************************************************************************)
Reversed(segment) ==
  [fromAirport |-> segment.toAirport, toAirport |-> segment.fromAirport]

\* the airports that differ from airport in the letter case of city and
\* country only
AirportCaseVariants(airport) ==
  { [iata |-> airport.iata, city |-> ci, country |-> co] :
      ci \in CaseVariants(airport.city), co \in CaseVariants(airport.country) }

SegmentCaseVariants(segment) ==
  [fromAirport : AirportCaseVariants(segment.fromAirport),
   toAirport : AirportCaseVariants(segment.toAirport)]

\* the bands of the list that hold the distance: minDistance exclusive,
\* maxDistance inclusive or absent
QualifyingBands(distanceBands, distance) ==
  { i \in 1..Len(distanceBands) :
      /\ distanceBands[i].minDistance < distance
      /\ distanceBands[i].hasMax => distance <= distanceBands[i].maxDistance }

Minimum(S) == CHOOSE x \in S : \A y \in S : x <= y

\* C1: for every concrete rule, a calculate call with arguments that applies
\* rejects fails with an error and returns no CalculationResult.
C1_CalculateThrowsWhenNotApplicable ==
  /\ op = "DistanceRule.calculate"
       => (~DistanceRuleApplies(rule, args.miles, args.fareEarnCategory) => threw)
  /\ op = "IntraCountryRule.calculate"
       => (~IntraCountryRuleApplies(rule, args.segment, args.miles, args.fareEarnCategory)
             => threw)
  /\ op = "FareClassRule.calculate"
       => (~FareClassRuleApplies(rule, args.segment, args.fareEarnCategory) => threw)
  /\ op = "GeographicalRule.calculate"
       => (~GeographicalRuleApplies(rule, args.segment, args.fareEarnCategory) => threw)

\* C2: GeographicalRule.applies returns the same on a segment and on the
\* reversed segment, and when it applies both resolve the same origin and
\* destination.
C2_DirectionInvariant ==
  op = "GeographicalRule.applies" =>
    /\ GeographicalRuleApplies(rule, Reversed(args.segment), args.fareEarnCategory) = ret
    /\ ret => GetOriginAndDestination(rule.ruleConfig, Reversed(args.segment))
                = GetOriginAndDestination(rule.ruleConfig, args.segment)

\* C3 as stated: IntraCountryRule.applies is true whenever both airports
\* have the rule's country and a distance band matches the segment's
\* distance, and false whenever the two airports' countries differ.
C3_AppliesWhenBandMatches ==
  op = "IntraCountryRule.applies" =>
    /\ ( /\ args.segment.fromAirport.country = rule.country
         /\ args.segment.toAirport.country = rule.country
         /\ QualifyingBands(rule.distanceRule.distanceBands, args.miles) # {} )
       => ret = TRUE
    /\ args.segment.fromAirport.country # args.segment.toAirport.country
       => ret = FALSE

\* C3 amended: IntraCountryRule.applies is true whenever both airports have
\* the rule's country, a distance band matches the segment's distance and
\* the first such band has earnings for the category; it is false whenever
\* the two airports' countries differ.
C3_AppliesWhenBandMatchesWithCategory ==
  op = "IntraCountryRule.applies" =>
    LET bands == rule.distanceRule.distanceBands
        Q == QualifyingBands(bands, args.miles)
    IN /\ ( /\ args.segment.fromAirport.country = rule.country
            /\ args.segment.toAirport.country = rule.country
            /\ Q # {}
            /\ args.fareEarnCategory \in DOMAIN bands[Minimum(Q)].earnings )
          => ret = TRUE
       /\ args.segment.fromAirport.country # args.segment.toAirport.country
          => ret = FALSE

\* C3 witness: the rule applied to a segment inside its country
C3_Witness ==
  /\ op = "IntraCountryRule.applies"
  /\ args.segment.fromAirport.country = rule.country
  /\ args.segment.toAirport.country = rule.country
  /\ Len(rule.distanceRule.distanceBands) = 2
  /\ ret = TRUE

\* C4: _getDistanceBand returns the first band in declaration order with
\* minDistance < d and (maxDistance absent or d <= maxDistance), none when no
\* band qualifies; a distance equal to a band's maxDistance selects that band
\* unless an earlier band holds it too, and a distance equal to a band's
\* minDistance never selects that band.
C4_FirstQualifyingBand ==
  op = "DistanceRule._getDistanceBand" =>
    LET bands == rule.distanceBands
        d == args.distance
        Q == QualifyingBands(bands, d)
    IN /\ Q = {} => ret = 0
       /\ Q # {} => ret = Minimum(Q)
       /\ \A i \in 1..Len(bands) :
            /\ (bands[i].hasMax /\ d = bands[i].maxDistance
                  /\ \A j \in 1..(i - 1) : j \notin Q) => ret = i
            /\ d = bands[i].minDistance => ret # i

\* C4 witness: the distance is the maxDistance of the band found and the
\* minDistance of the next band
C4_Witness ==
  /\ op = "DistanceRule._getDistanceBand"
  /\ ret = 1
  /\ Len(rule.distanceBands) = 2
  /\ rule.distanceBands[1].hasMax
  /\ rule.distanceBands[1].maxDistance = args.distance
  /\ rule.distanceBands[2].minDistance = args.distance

\* the entry a rule matched for the arguments of a calculate call that
\* applies
MatchedEarnings ==
  CASE op = "DistanceRule.calculate" ->
         rule.distanceBands[
           Minimum(QualifyingBands(rule.distanceBands, args.miles))].earnings
    [] op = "IntraCountryRule.calculate" ->
         rule.distanceRule.distanceBands[
           Minimum(QualifyingBands(rule.distanceRule.distanceBands, args.miles))].earnings
    [] op = "FareClassRule.calculate" -> rule.fareClassEarnings
    [] op = "GeographicalRule.calculate" ->
         DestinationEarnings(rule.ruleConfig,
           GetOriginAndDestination(rule.ruleConfig, args.segment).destination)

CalculateApplies ==
  CASE op = "DistanceRule.calculate" ->
         DistanceRuleApplies(rule, args.miles, args.fareEarnCategory)
    [] op = "IntraCountryRule.calculate" ->
         IntraCountryRuleApplies(rule, args.segment, args.miles, args.fareEarnCategory)
    [] op = "FareClassRule.calculate" ->
         FareClassRuleApplies(rule, args.segment, args.fareEarnCategory)
    [] op = "GeographicalRule.calculate" ->
         GeographicalRuleApplies(rule, args.segment, args.fareEarnCategory)
    [] OTHER -> FALSE

\* C5: whenever applies is true for the arguments, calculate returns without
\* error a result with the points and credits configured for the category in
\* the entry the rule matched, the rule's name and ruleUrl, and the
\* requested category.
C5_CalculateReturnsConfiguredEarnings ==
  CalculateApplies =>
    /\ ~threw
    /\ ret.qantasPoints = MatchedEarnings[args.fareEarnCategory].qantasPoints
    /\ ret.statusCredits = MatchedEarnings[args.fareEarnCategory].statusCredits
    /\ ret.rule = rule.name
    /\ ret.ruleUrl = rule.ruleUrl
    /\ ret.fareEarnCategory = args.fareEarnCategory

\* C5 witness: a GeographicalRule calculated a segment it applies to, with
\* the destination resolved by the swapped attempt
C5_Witness ==
  /\ op = "GeographicalRule.calculate"
  /\ CalculateApplies
  /\ ~threw
  /\ GetDestination(rule.ruleConfig, args.segment.toAirport) = Null

\* the characters of the tokens, in order
RECURSIVE Flatten(_)
Flatten(tokens) == IF tokens = <<>> THEN <<>> ELSE Head(tokens) \o Flatten(Tail(tokens))

\* the number the decimal digits s denote
RECURSIVE Decimal(_)
Decimal(s) ==
  IF s = <<>> THEN 0 ELSE 10 * Decimal(SubSeq(s, 1, Len(s) - 1)) + DigitValue(s[Len(s)])

\* the length of the longest run of digits s starts with
LeadingDigits(s) ==
  CHOOSE n \in 0..Len(s) :
    /\ \A i \in 1..n : IsDigit(s[i])
    /\ n < Len(s) => ~IsDigit(s[n + 1])

\* a token that is a decimal number counts as that number, any other as 0
StrictValue(tokens, i) ==
  IF i <= Len(tokens) /\ tokens[i] # <<>> /\ LeadingDigits(tokens[i]) = Len(tokens[i])
    THEN Decimal(tokens[i]) ELSE 0

\* a token counts as the number its leading digits denote, 0 without any
PrefixValue(tokens, i) ==
  IF i <= Len(tokens) THEN Decimal(SubSeq(tokens[i], 1, LeadingDigits(tokens[i]))) ELSE 0

\* the keys are the labels, and the tokens hold the characters of the
\* strings without the whitespace and, for the points, without the commas
ParsedShape ==
  LET labels == args.fareClasses
  IN /\ DOMAIN ret = {labels[i] : i \in 1..Len(labels)}
     /\ Flatten(PointsTokens(args.qantasPointsString))
          = SelectSeq(args.qantasPointsString, LAMBDA c : ~IsWhitespace(c) /\ c # ",")
     /\ Flatten(CreditsTokens(args.qantasCreditsString))
          = SelectSeq(args.qantasCreditsString, LAMBDA c : ~IsWhitespace(c))

\* the positions of the labels that no later position repeats
LastPositions(labels) ==
  { i \in 1..Len(labels) : \A j \in (i + 1)..Len(labels) : labels[j] # labels[i] }

\* C6 as stated: the keys are the labels and label i maps to the integers of
\* points token i and credits token i, where a token that is not a number
\* (non-numeric or empty) and a position beyond the tokens yield 0.
C6_NonNumericTokenYieldsZero ==
  op = "parseEarningRates" =>
    /\ ParsedShape
    /\ \A i \in LastPositions(args.fareClasses) :
         /\ ret[args.fareClasses[i]].qantasPoints
              = StrictValue(PointsTokens(args.qantasPointsString), i)
         /\ ret[args.fareClasses[i]].statusCredits
              = StrictValue(CreditsTokens(args.qantasCreditsString), i)

\* C6 amended: the keys are the labels and label i maps to the integers read
\* from the leading digits of points token i and credits token i, whatever
\* follows the digits being ignored; a token that starts with no digit, an
\* empty token and a position beyond the tokens yield 0.
C6_TokenYieldsLeadingInteger ==
  op = "parseEarningRates" =>
    /\ ParsedShape
    /\ \A i \in LastPositions(args.fareClasses) :
         /\ ret[args.fareClasses[i]].qantasPoints
              = PrefixValue(PointsTokens(args.qantasPointsString), i)
         /\ ret[args.fareClasses[i]].statusCredits
              = PrefixValue(CreditsTokens(args.qantasCreditsString), i)

\* C6 witness: a points string with a thousands comma and a trailing letter,
\* and more labels than tokens
C6_Witness ==
  /\ op = "parseEarningRates"
  /\ args.qantasPointsString = <<"1", ",", "2", "a">>
  /\ args.fareClasses = <<"Y", "J">>
  /\ ret["Y"] = QantasEarnings(12, 0)
  /\ ret["J"] = QantasEarnings(0, 0)

\* C7: changing only the letter case of an airport's city or country never
\* changes what IntraCountryRule.applies and GeographicalRule.applies return.
C7_AppliesIgnoresLetterCase ==
  /\ op = "IntraCountryRule.applies" =>
       \A s \in SegmentCaseVariants(args.segment) :
         IntraCountryRuleApplies(rule, s, args.miles, args.fareEarnCategory) = ret
  /\ op = "GeographicalRule.applies" =>
       \A s \in SegmentCaseVariants(args.segment) :
         GeographicalRuleApplies(rule, s, args.fareEarnCategory) = ret

\* C8: FareClassRule.applies is true exactly when the category is a key of
\* the fare-class table, whatever the segment.
C8_FareClassAppliesIsMembership ==
  op = "FareClassRule.applies" =>
    /\ ret = (args.fareEarnCategory \in DOMAIN rule.fareClassEarnings)
    /\ \A s \in Segments : FareClassRuleApplies(rule, s, args.fareEarnCategory) = ret

\* C8 witness: a category absent from the table
C8_Witness ==
  /\ op = "FareClassRule.applies"
  /\ args.fareEarnCategory \notin DOMAIN rule.fareClassEarnings
  /\ DOMAIN rule.fareClassEarnings # {}
  /\ ret = FALSE

\* the orientation C9 describes
ChosenOrientation(ruleConfig, segment) ==
  IF /\ GetOrigin(ruleConfig, segment.fromAirport) # Null
     /\ GetDestination(ruleConfig, segment.toAirport) # Null
    THEN [origin |-> GetOrigin(ruleConfig, segment.fromAirport),
          destination |-> GetDestination(ruleConfig, segment.toAirport)]
    ELSE [origin |-> GetOrigin(ruleConfig, segment.toAirport),
          destination |-> GetDestination(ruleConfig, segment.fromAirport)]

\* the categories of the destination entry of that type and value
EntryCategories(ruleConfig, destination) ==
  CASE destination.type = "city" -> DOMAIN ruleConfig.destination.city[destination.value]
    [] destination.type = "country" ->
         DOMAIN ruleConfig.destination.country[destination.value]
    [] destination.type = "region" ->
         UNION { DOMAIN ruleConfig.destination.region[i].earnings :
                   i \in { j \in 1..Len(ruleConfig.destination.region) :
                             ruleConfig.destination.region[j].key = destination.value } }
    [] OTHER -> {}

\* C9: GeographicalRule tries origin = fromAirport, destination = toAirport
\* and, only if a side fails, replaces both by the swapped attempt; applies
\* is true exactly when both sides of the orientation chosen resolve and the
\* destination entry resolved holds the category.
C9_OrientationAndApplies ==
  /\ op = "GeographicalRule._getOriginAndDestination" =>
       ret = ChosenOrientation(rule.ruleConfig, args.segment)
  /\ op = "GeographicalRule.applies" =>
       LET od == ChosenOrientation(rule.ruleConfig, args.segment)
       IN ret = ( /\ od.origin # Null
                  /\ od.destination # Null
                  /\ args.fareEarnCategory \in EntryCategories(rule.ruleConfig, od.destination) )

\* C9 witness: the first attempt fails on one side only and the swapped
\* attempt resolves both sides
C9_Witness ==
  /\ op = "GeographicalRule._getOriginAndDestination"
  /\ GetOrigin(rule.ruleConfig, args.segment.fromAirport) # Null
  /\ GetDestination(rule.ruleConfig, args.segment.toAirport) = Null
  /\ ret.origin # Null
  /\ ret.destination # Null
  /\ ret.origin # GetOrigin(rule.ruleConfig, args.segment.fromAirport)

\* the location the priority order city, country, region gives an airport,
\* cities and countries being the configured names and regions the
\* configured regions in order
FirstMatch(cities, countries, regions, airport) ==
  LET inRegions == { i \in 1..Len(regions) :
                       isInRegion(toLowerCase(airport.iata), regions[i]) }
  IN IF toLowerCase(airport.city) \in cities
       THEN [type |-> "city", value |-> toLowerCase(airport.city)]
     ELSE IF toLowerCase(airport.country) \in countries
       THEN [type |-> "country", value |-> toLowerCase(airport.country)]
     ELSE IF inRegions # {}
       THEN [type |-> "region", value |-> regions[Minimum(inRegions)]]
     ELSE Null

\* C10: _getOrigin and _getDestination test an airport in the order city,
\* country, region and return the first match as {type, value}, or none.
C10_CityThenCountryThenRegion ==
  /\ op = "GeographicalRule._getOrigin" =>
       /\ ret = FirstMatch(rule.ruleConfig.origin.city, rule.ruleConfig.origin.country,
                           rule.ruleConfig.origin.region, args.airport)
       /\ toLowerCase(args.airport.city) \in rule.ruleConfig.origin.city
            => ret.type = "city"
  /\ op = "GeographicalRule._getDestination" =>
       /\ ret = FirstMatch(DOMAIN rule.ruleConfig.destination.city,
                           DOMAIN rule.ruleConfig.destination.country,
                           RegionKeys(rule.ruleConfig), args.airport)
       /\ toLowerCase(args.airport.city) \in DOMAIN rule.ruleConfig.destination.city
            => ret.type = "city"

\* C10 witness: an airport that matches a configured origin city and a
\* configured origin country
C10_Witness ==
  /\ op = "GeographicalRule._getOrigin"
  /\ toLowerCase(args.airport.city) \in rule.ruleConfig.origin.city
  /\ toLowerCase(args.airport.country) \in rule.ruleConfig.origin.country
  /\ ret.type = "city"

====
